---- MODULE Spec2Model ----
(***************************************************************************)
(* A model of deref_openapi.py: the $ref de-referencer (class              *)
(* Dereferencer), the overlay merge (deep_merge) and the final pruning     *)
(* pass (prune_unused_components_in_place).                                *)
(*                                                                         *)
(* Representation.                                                         *)
(*  - A Python str is a sequence of atoms.  An atom is either one of the   *)
(*    characters the code inspects ("#", "/", ":", "~", "-", ".", "..",    *)
(*    the digits "0" "1" "2") or a word: a block of other characters that  *)
(*    the code never splits ("components", "root.yaml", "x", ...).         *)
(*  - A YAML node is a pair <<tag, payload>>: <<"str", s>>, <<"int", n>>,  *)
(*    <<"bool", b>>, <<"null", "null">>, <<"list", items>> and             *)
(*    <<"map", pairs>>, pairs being the sequence of <<key, value>> in      *)
(*    insertion order (a Python dict), keys pairwise different.            *)
(*  - copy.deepcopy is the identity on these values: TLA+ values are       *)
(*    never aliased.                                                       *)
(***************************************************************************)
EXTENDS Integers, Sequences, FiniteSets, TLC

----------------------------------------------------------------------------
(* Python str helpers on atom sequences *)

\* The element of a one-element set.  Only({e(x) : x \in {v}}) is e(v) with v
\* evaluated once, before e.
Only(S) == CHOOSE v \in S : TRUE

\* s.startswith(p)
startswith(s, p) == Len(s) >= Len(p) /\ SubSeq(s, 1, Len(p)) = p

\* s.find(c): the first position of c in s, 0 when c is not in s
find(s, c) ==
    IF \E i \in DOMAIN s : s[i] = c
    THEN CHOOSE i \in DOMAIN s : s[i] = c /\ \A h \in 1..(i - 1) : s[h] # c
    ELSE 0

\* s.split(sep) for a one-character separator
RECURSIVE split(_, _)
split(str, sep) ==
    Only({IF i = 0 THEN <<s>>
          ELSE <<SubSeq(s, 1, i - 1)>> \o split(SubSeq(s, i + 1, Len(s)), sep)
          : <<s, i>> \in {<<str, find(str, sep)>>}})

\* sep.join(parts)
RECURSIVE join(_, _)
join(seq, sep) ==
    Only({IF parts = <<>> THEN <<>>
          ELSE IF Len(parts) = 1 THEN parts[1]
          ELSE parts[1] \o <<sep>> \o join(Tail(parts), sep)
          : parts \in {seq}})

\* s.replace(a + b, r) for a two-character pattern, scanning left to right
RECURSIVE replace(_, _, _, _)
replace(str, a, b, r) ==
    Only({IF Len(s) < 2 THEN s
          ELSE IF s[1] = a /\ s[2] = b
               THEN <<r>> \o replace(SubSeq(s, 3, Len(s)), a, b, r)
               ELSE <<s[1]>> \o replace(Tail(s), a, b, r)
          : s \in {str}})

Digits == {"0", "1", "2"}

DigitVal(d) == CASE d = "0" -> 0 [] d = "1" -> 1 [] d = "2" -> 2

RECURSIVE DecVal(_)
DecVal(str) ==
    Only({IF s = <<>> THEN 0
          ELSE 10 * DecVal(SubSeq(s, 1, Len(s) - 1)) + DigitVal(s[Len(s)])
          : s \in {str}})

\* int(tok): [ok |-> FALSE] stands for ValueError
int(tok) ==
    LET neg  == tok # <<>> /\ tok[1] = "-"
        body == IF neg THEN Tail(tok) ELSE tok
    IN  IF body # <<>> /\ \A i \in DOMAIN body : body[i] \in Digits
        THEN [ok |-> TRUE, val |-> IF neg THEN 0 - DecVal(body) ELSE DecVal(body)]
        ELSE [ok |-> FALSE, val |-> 0]

----------------------------------------------------------------------------
(* YAML nodes *)

Str(s)      == <<"str", s>>
Num(n)      == <<"int", n>>
Bool(b)     == <<"bool", b>>
Null        == <<"null", "null">>
List(items) == <<"list", items>>
Map(pairs)  == <<"map", pairs>>

IsStr(n)  == n[1] = "str"
IsList(n) == n[1] = "list"
IsMap(n)  == n[1] = "map"

\* dict helpers: k in d, d[k], d.keys(), d[k] = v, del d[k]
HasKey(d, k) == \E i \in DOMAIN d[2] : d[2][i][1] = k
Get(d, k)    == d[2][CHOOSE i \in DOMAIN d[2] : d[2][i][1] = k][2]
Keys(d)      == {d[2][i][1] : i \in DOMAIN d[2]}
SetKey(d, k, v) ==
    IF HasKey(d, k)
    THEN Map([i \in DOMAIN d[2] |-> IF d[2][i][1] = k THEN <<k, v>> ELSE d[2][i]])
    ELSE Map(Append(d[2], <<k, v>>))
DelKey(d, k) == Map(SelectSeq(d[2], LAMBDA p : p[1] # k))

\* bool(node): Python truthiness, as used by `if not bucket` and `if overlay`
Truthy(n) ==
    CASE n[1] = "null" -> FALSE
      [] n[1] = "bool" -> n[2]
      [] n[1] = "int"  -> n[2] # 0
      [] OTHER         -> n[2] # <<>>

\* The keys the code names
REF             == <<"$ref">>
X_RESOLVED_FROM == <<"x", "-", "resolved", "-", "from">>
X_CIRCULAR_REF  == <<"x", "-", "circular", "-", "ref">>
REQUIRED        == <<"required">>
VENDOR_PREFIX   == <<"x", "-">>
COMPONENTS      == <<"components">>

----------------------------------------------------------------------------
(* urllib.parse, for URIs without query, params or fragment *)

Special == {"#", "/", ":", "~", "-", ".", ".."} \cup Digits

UsesRelative == {"", "file", "http", "https", "ftp"}
UsesNetloc   == {"", "file", "http", "https", "ftp"}

\* urlparse(uri): scheme, netloc and path
urlparse(uri) ==
    LET scheme == IF Len(uri) >= 2 /\ uri[2] = ":" /\ uri[1] \notin Special
                  THEN uri[1] ELSE ""
        rest   == IF scheme # "" THEN SubSeq(uri, 3, Len(uri)) ELSE uri
    IN  IF startswith(rest, <<"/", "/">>)
        THEN Only({[scheme |-> scheme,
                    netloc |-> IF cut = 0 THEN body ELSE SubSeq(body, 1, cut - 1),
                    path   |-> IF cut = 0 THEN <<>> ELSE SubSeq(body, cut, Len(body))]
                   : <<body, cut>> \in
                       {<<SubSeq(rest, 3, Len(rest)),
                          find(SubSeq(rest, 3, Len(rest)), "/")>>}})
        ELSE [scheme |-> scheme, netloc |-> <<>>, path |-> rest]

\* urlunparse((scheme, netloc, path, '', '', ''))
urlunparse(scheme, netloc, path) ==
    LET withloc == IF netloc # <<>>
                      \/ (scheme # "" /\ scheme \in UsesNetloc
                          /\ ~startswith(path, <<"/", "/">>))
                   THEN <<"/", "/">> \o netloc
                        \o (IF path # <<>> /\ path[1] # "/" THEN <<"/">> ELSE <<>>)
                        \o path
                   ELSE path
    IN  IF scheme # "" THEN <<scheme, ":">> \o withloc ELSE withloc

\* the dot-segment loop of urljoin
RECURSIVE remove_dots(_, _)
remove_dots(todo, done) ==
    Only({IF segments = <<>> THEN acc
          ELSE IF segments[1] = <<"..">>
               THEN remove_dots(Tail(segments),
                                IF acc = <<>> THEN acc
                                ELSE SubSeq(acc, 1, Len(acc) - 1))
               ELSE IF segments[1] = <<".">>
                    THEN remove_dots(Tail(segments), acc)
                    ELSE remove_dots(Tail(segments), Append(acc, segments[1]))
          : <<segments, acc>> \in {<<todo, done>>}})

\* the path urljoin builds from the path of the base and a non-empty path
joined_path(bpath, path) ==
    Only({Only({Only({IF joined = <<>> THEN <<"/">> ELSE joined
                      : joined \in
                          {join(IF segments[Len(segments)] \in {<<".">>, <<"..">>}
                                THEN Append(remove_dots(segments, <<>>), <<>>)
                                ELSE remove_dots(segments, <<>>), "/")}})
                : segments \in
                    {IF path[1] = "/" \/ Len(raw) < 2 THEN raw
                     ELSE <<raw[1]>>
                          \o SelectSeq(SubSeq(raw, 2, Len(raw) - 1),
                                       LAMBDA x : x # <<>>)
                          \o <<raw[Len(raw)]>>}})
          : raw \in
              {IF path[1] = "/" THEN split(path, "/")
               ELSE Only({IF bp0[Len(bp0)] # <<>>
                          THEN SubSeq(bp0, 1, Len(bp0) - 1) ELSE bp0
                          : bp0 \in {split(bpath, "/")}})
                    \o split(path, "/")}})

\* urljoin(base, url)
urljoin(base, url) ==
    IF base = <<>> THEN url
    ELSE IF url = <<>> THEN base
    ELSE Only({
        LET scheme == IF u.scheme = "" THEN b.scheme ELSE u.scheme
            netloc == IF scheme \in UsesNetloc THEN b.netloc ELSE u.netloc
        IN  IF scheme # b.scheme \/ scheme \notin UsesRelative THEN url
            ELSE IF scheme \in UsesNetloc /\ u.netloc # <<>>
                 THEN urlunparse(scheme, u.netloc, u.path)
            ELSE IF u.path = <<>> THEN urlunparse(scheme, netloc, b.path)
            ELSE urlunparse(scheme, netloc, joined_path(b.path, u.path))
        : <<b, u>> \in {<<urlparse(base), urlparse(url)>>}})

----------------------------------------------------------------------------
(* Utilities *)

\* _decode_json_pointer_token
decode_json_pointer_token(token) ==
    replace(replace(token, "~", "1", "/"), "~", "0", "~")

\* The loop of json_pointer_get over the tokens; [ok |-> FALSE] is KeyError
RECURSIVE pointer_walk(_, _)
pointer_walk(at, todo) ==
    Only({IF parts = <<>> THEN [ok |-> TRUE, val |-> cur]
          ELSE Only({
              IF IsMap(cur)
              THEN IF ~HasKey(cur, tok) THEN [ok |-> FALSE, val |-> Null]
                   ELSE pointer_walk(Get(cur, tok), Tail(parts))
              ELSE IF IsList(cur)
              THEN IF tok = <<"-">> THEN [ok |-> FALSE, val |-> Null]
                   ELSE Only({IF ~idx.ok THEN [ok |-> FALSE, val |-> Null]
                              ELSE IF idx.val < 0 \/ idx.val >= Len(cur[2])
                                   THEN [ok |-> FALSE, val |-> Null]
                                   ELSE pointer_walk(cur[2][idx.val + 1], Tail(parts))
                              : idx \in {int(tok)}})
              ELSE [ok |-> FALSE, val |-> Null]
              : tok \in {decode_json_pointer_token(parts[1])}})
          : <<cur, parts>> \in {<<at, todo>>}})

\* json_pointer_get(doc, pointer)
json_pointer_get(doc, pointer) ==
    IF pointer = <<>> \/ pointer = <<"#">> THEN [ok |-> TRUE, val |-> doc]
    ELSE LET p == IF pointer[1] = "#" THEN Tail(pointer) ELSE pointer
         IN  IF ~startswith(p, <<"/">>) THEN [ok |-> FALSE, val |-> Null]
             ELSE pointer_walk(doc, Tail(split(p, "/")))

\* normalize_ref(ref, current_base_uri): <<doc_uri, frag>>
normalize_ref(ref, current_base_uri) ==
    IF ref = <<>> THEN <<current_base_uri, <<>>>>
    ELSE LET at   == find(ref, "#")
             res  == IF at > 0 THEN SubSeq(ref, 1, at - 1) ELSE ref
             frag == IF at > 0 THEN SubSeq(ref, at, Len(ref)) ELSE <<>>
         IN  <<IF res # <<>> THEN urljoin(current_base_uri, res)
               ELSE current_base_uri, frag>>

\* is_ref_node(node)
is_ref_node(node) == IsMap(node) /\ HasKey(node, REF) /\ IsStr(Get(node, REF))

\* The 'required' union of deep_merge: `seen` is the base list's items and is
\* not extended while the overlay items are filtered.
required_union(base_list, overlay_list) ==
    base_list \o SelectSeq(overlay_list,
                           LAMBDA item : \A i \in DOMAIN base_list : base_list[i] # item)

\* deep_merge(base, overlay, merge_required=...); merge_items is its loop
\* over overlay.items()
RECURSIVE deep_merge(_, _, _)
RECURSIVE merge_items(_, _, _)
merge_items(merged, todo, merge_required) ==
    Only({IF items = <<>> THEN out
          ELSE Only({
              merge_items(
                  SetKey(out, k,
                         IF HasKey(out, k)
                         THEN IF IsMap(Get(out, k)) /\ IsMap(v)
                              THEN deep_merge(Get(out, k), v, merge_required)
                              ELSE IF merge_required /\ k = REQUIRED
                                      /\ IsList(Get(out, k)) /\ IsList(v)
                                   THEN List(required_union(Get(out, k)[2], v[2]))
                                   ELSE v
                         ELSE v),
                  Tail(items), merge_required)
              : <<k, v>> \in {items[1]}})
          : <<out, items>> \in {<<merged, todo>>}})
deep_merge(base, overlay, merge_required) ==
    IF IsMap(base) /\ IsMap(overlay)
    THEN merge_items(base, overlay[2], merge_required)
    ELSE overlay

----------------------------------------------------------------------------
(* The world outside the program: the files and the remote documents *)

ROOT_URI == <<"file", ":", "/", "/", "/", "d", "/", "root.yaml">>

\* file_uri_to_path(uri): the path of a file:// URI, a leading '/' before a
\* drive letter dropped
file_uri_to_path(uri) ==
    LET path == urlparse(uri).path
    IN  IF startswith(path, <<"/">>) /\ Len(path) > 3 /\ path[3] = ":"
        THEN Tail(path) ELSE path

----------------------------------------------------------------------------
(* State *)

VARIABLES
    cfg,        \* the keyword arguments of Dereferencer.__init__
    root_doc,   \* self.root_doc
    files,      \* the file system: path -> parsed document
    remote,     \* the network: URL -> parsed document
    doc_cache,  \* self._doc_cache
    res_cache,  \* self._res_cache
    stats,      \* self.stats
    warnings,   \* self.warnings
    stack,      \* the `stack` list shared by all calls of one dereference()
    kont,       \* the pending calls of _resolve_node / _resolve_ref_node
    pc,         \* "init", "eval" (a call of _resolve_node is entered),
                \* "ret" (it has returned), "resolved", "pruned"
    node,       \* the argument of the call entered / the value returned
    base,       \* current_base_uri of the call entered
    result,     \* the document dereference() returned, pruned in place
    report,     \* the value prune_unused_components_in_place returned
    before,     \* the document as it was when the last prune started
    prunes,     \* the number of prune runs so far
    last,       \* what the last step did: <<outcome, ref_key>>
    left,       \* history: the values returned without expansion, by kind
    first_visit, \* history: ref_key -> the value its first cacheable visit returned
    visits,     \* history: the calls of _resolve_ref_node, entered and by outcome
    loads       \* history: the reads _load_doc performed: <<location, succeeded>>

vars == <<cfg, root_doc, files, remote, doc_cache, res_cache, stats, warnings,
          stack, kont, pc, node, base, result, report, before, prunes, last,
          left, first_visit, visits, loads>>

----------------------------------------------------------------------------
(* Dereferencer._load_doc *)

Failed == [ok |-> FALSE, val |-> Null]

\* _load_doc(uri): [ok |-> FALSE] stands for the exception raised
load_doc(uri) ==
    IF uri \in DOMAIN doc_cache THEN [ok |-> TRUE, val |-> doc_cache[uri]]
    ELSE LET scheme == urlparse(uri).scheme
         IN  IF scheme \in {"http", "https"}
             THEN IF ~(cfg.handle_external_refs /\ cfg.allow_http) THEN Failed
                  ELSE IF uri \in DOMAIN remote
                       THEN [ok |-> TRUE, val |-> remote[uri]] ELSE Failed
             ELSE IF scheme = "file" \/ scheme = ""
             THEN LET path == IF scheme = "file" THEN file_uri_to_path(uri) ELSE uri
                  IN  IF path \in DOMAIN files
                      THEN [ok |-> TRUE, val |-> files[path]] ELSE Failed
             ELSE Failed

after_load_forgets(uri) == doc_cache

\* line 273: _doc_cache after _load_doc(uri); a failed load stores nothing
after_load(uri) ==
    IF uri \in DOMAIN doc_cache \/ ~load_doc(uri).ok THEN doc_cache
    ELSE (uri :> load_doc(uri).val) @@ doc_cache

\* lines 258-268: _load_doc(uri) goes as far as requests.get or open: the
\* location is not cached, and it is a file, or HTTP(S) with both switches on
performs_io(uri) ==
    /\ uri \notin DOMAIN doc_cache
    /\ \/ urlparse(uri).scheme \in {"file", ""}
       \/ /\ urlparse(uri).scheme \in {"http", "https"}
          /\ cfg.handle_external_refs /\ cfg.allow_http

\* lines 262-268: the reads performed so far, after _load_doc(uri)
after_read(uri) ==
    IF performs_io(uri) THEN Append(loads, <<uri, load_doc(uri).ok>>) ELSE loads

\* lines 323-325: the document, then the target inside it
load_target(doc_uri, frag) ==
    LET doc == load_doc(doc_uri)
    IN  IF ~doc.ok THEN Failed
        ELSE IF frag = <<>> \/ frag = <<"#">> THEN doc
        ELSE json_pointer_get(doc.val, frag)

----------------------------------------------------------------------------
(* Dereferencer._resolve_node and _resolve_ref_node, one step per call and
   per return *)

ref_of(n) == Get(n, REF)[2]

\* lines 304-306 and 315: ref, doc_uri, frag, ref_key and overlay of a
\* reference node met under the base location b
ref_info(n, b) ==
    Only({[ref     |-> ref_of(n),
           doc_uri |-> norm[1],
           frag    |-> norm[2],
           ref_key |-> norm[1] \o norm[2],
           overlay |-> DelKey(n, REF)]
          : norm \in {normalize_ref(ref_of(n), b)}})

ref_key_of(n) == ref_info(n, base).ref_key

in_stack_never(key) == FALSE

in_stack_top_only(key) == stack # <<>> /\ stack[Len(stack)] = key

\* line 309: ref_key in stack
in_stack(key) == \E i \in DOMAIN stack : stack[i] = key

cache_allowed_any_depth(overlay) == overlay[2] = <<>>

\* line 318
cache_allowed(overlay) == overlay[2] = <<>> /\ Len(stack) = 0

\* Bound: the number of pending calls; the documents of the model stay below it
MaxPending == 16

Pop(s) == SubSeq(s, 1, Len(s) - 1)
Top(s) == s[Len(s)]

annotate_with_ref_key(resolved, ref) ==
    IF IsMap(resolved) /\ ~HasKey(resolved, REF)
    THEN Map(<< <<REF, Str(ref)>> >> \o resolved[2])
    ELSE resolved

\* line 344-345: the provenance annotation
annotate(resolved, ref) ==
    IF cfg.add_x_resolved_from /\ IsMap(resolved) /\ ~HasKey(resolved, X_RESOLVED_FROM)
    THEN Map(<< <<X_RESOLVED_FROM, Str(ref)>> >> \o resolved[2])
    ELSE resolved

\* what _res_cache[ref_key] is set to at line 348
cached_value(resolved) == resolved

unresolved_without_siblings(n) == Map(<< <<REF, Get(n, REF)>> >>)

\* line 329: the node handed back when the load or the pointer failed
unresolved_result(n) == n

circular_result_unmarked(n) == Map(<< <<REF, Str(ref_of(n))>> >>)

\* lines 311-313: the placeholder, or the node as it is
circular_result(n) ==
    IF cfg.circular_placeholder
    THEN Map(<< <<REF, Str(ref_of(n))>>, <<X_CIRCULAR_REF, Bool(TRUE)>> >>)
    ELSE n

----------------------------------------------------------------------------
(* The inputs: configurations, root documents, files and remote documents *)

\* MAX_RESOLUTION_DEPTH, the max_depth main() passes
MAX_RESOLUTION_DEPTH == 5000

\* Bound: the small max_depth of the configuration that makes the guard act
SmallDepth == 1

\* The configuration main() builds from the globals of lines 39-53
DefaultConfig ==
    [add_x_resolved_from |-> TRUE, allow_http |-> FALSE,
     handle_external_refs |-> TRUE, merge_required_lists |-> TRUE,
     circular_placeholder |-> TRUE, max_depth |-> MAX_RESOLUTION_DEPTH]

\* The default configuration and the ones that differ from it in one
\* keyword argument of __init__ (both in the two that gate remote loads)
Configs ==
    {DefaultConfig,
     [DefaultConfig EXCEPT !.add_x_resolved_from = FALSE],
     [DefaultConfig EXCEPT !.allow_http = TRUE],
     [DefaultConfig EXCEPT !.handle_external_refs = FALSE],
     [DefaultConfig EXCEPT !.handle_external_refs = FALSE, !.allow_http = TRUE],
     [DefaultConfig EXCEPT !.merge_required_lists = FALSE],
     [DefaultConfig EXCEPT !.circular_placeholder = FALSE],
     [DefaultConfig EXCEPT !.max_depth = SmallDepth]}

RefTo(r) == Map(<< <<REF, Str(r)>> >>)

Pointer(section, name) == <<"#", "/", "components", "/", section, "/", name>>

rA      == Pointer("schemas", "A")
rB      == Pointer("schemas", "B")
rNope   == Pointer("schemas", "Nope")
rAalias == <<"root.yaml">> \o rA
rExtX   == <<"ext.yaml", "#", "/", "X">>
rHttp   == <<"http", ":", "/", "/", "h", "/", "r.yaml", "#", "/", "R">>
rGone   == <<"gone.yaml">>
rPath1  == <<"#", "/", "paths", "/", "1">>

Obj ==
    Map(<< <<<<"type">>, Str(<<"object">>)>>,
           <<REQUIRED, List(<<Str(<<"a">>)>>)>>,
           <<<<"meta">>, Map(<< <<<<"k">>, Str(<<"v">>)>> >>)>> >>)

\* the first use site under `paths`
Uses1 ==
    {RefTo(rA),
     RefTo(rAalias),
     Map(<< <<REF, Str(rA)>>,
            <<REQUIRED, List(<<Str(<<"b">>), Str(<<"a">>), Str(<<"b">>)>>)>>,
            <<<<"meta">>, Map(<< <<<<"j">>, RefTo(rB)>> >>)>> >>),
     RefTo(rExtX),
     RefTo(rHttp),
     RefTo(rPath1),
     Map(<< <<REF, Str(rNope)>>, <<<<"k">>, RefTo(rA)>> >>),
     Map(<< <<REF, Str(rExtX)>>, <<<<"k">>, RefTo(rA)>> >>),
     Map(<< <<<<"discriminator">>,
              Map(<< <<<<"mapping">>, Map(<< <<<<"k">>, Str(<<"B">>)>> >>)>> >>)>> >>)}

\* the second use site under `paths`
Uses2 ==
    {RefTo(rA), RefTo(rB), RefTo(rPath1),
     Map(<< <<<<"security">>,
              List(<<Map(<< <<<<"apiKey">>, List(<<>>)>> >>)>>)>> >>)}

\* the schema A
BodiesA ==
    {Obj,
     RefTo(rB),
     RefTo(rA),
     RefTo(rExtX),
     Map(<< <<<<"p">>, RefTo(rA)>> >>),
     Map(<< <<REF, Str(rB)>>, <<<<"q">>, RefTo(rA)>> >>),
     Map(<< <<<<"p">>, RefTo(rB)>> >>)}

\* the schema B
BodiesB ==
    {Map(<< <<<<"type">>, Str(<<"string">>)>> >>),
     RefTo(rA),
     RefTo(rGone),
     Map(<< <<<<"items">>, List(<<RefTo(rB)>>)>> >>),
     Map(<< <<<<"items">>, List(<<RefTo(rA)>>)>> >>)}

RootDoc(u1, u2, a, b) ==
    Map(<< <<<<"paths">>, List(<<u1, u2>>)>>,
           <<COMPONENTS,
             Map(<< <<<<"schemas">>,
                      Map(<< <<<<"A">>, a>>, <<<<"B">>, b>> >>)>> >>)>> >>)

RootDocs ==
    {RootDoc(u1, u2, a, b) :
        u1 \in Uses1, u2 \in Uses2, a \in BodiesA, b \in BodiesB}

\* /d/ext.yaml refers back into the root document and into itself
Files ==
    (<<"/", "d", "/", "ext.yaml">> :>
        Map(<< <<<<"X">>, Map(<< <<<<"back">>, RefTo(rAalias)>>,
                                 <<<<"local">>, RefTo(<<"#", "/", "Y">>)>> >>)>>,
               <<<<"Y">>, Map(<< <<<<"type">>, Str(<<"number">>)>> >>)>> >>))

Remote ==
    (<<"http", ":", "/", "/", "h", "/", "r.yaml">> :>
        Map(<< <<<<"R">>, Map(<< <<<<"type">>, Str(<<"boolean">>)>> >>)>> >>))

NoReport == [section \in {} |-> 0]

\* Root documents for the pruning pass: a use site under `paths` and a
\* `components` mapping put together from optional sections
Leaf == Map(<< <<<<"type">>, Str(<<"string">>)>> >>)

MapsToY ==
    Map(<< <<<<"discriminator">>,
             Map(<< <<<<"mapping">>, Map(<< <<<<"k">>, Str(<<"Y">>)>> >>)>> >>)>> >>)

rYmissing == Pointer("schemas", "Y") \o <<"/", "missing">>

NamesNothing ==
    Map(<< <<<<"discriminator">>,
             Map(<< <<<<"mapping">>, Map(<< <<<<"k">>, Str(<<>>)>> >>)>> >>)>>,
           <<<<"security">>, List(<<Map(<< <<<<>>, List(<<>>)>> >>)>>)>> >>)

PruneUses ==
    {Map(<<>>),
     NamesNothing,
     Map(<< <<<<"security">>,
              List(<<Map(<< <<<<"apiKey">>, List(<<>>)>> >>)>>)>> >>),
     MapsToY,
     RefTo(rYmissing)}

SchemaBuckets ==
    {Map(<<>>), Null, Str(<<"s">>),
     Map(<< <<<<"Y">>, Leaf>> >>),
     Map(<< <<<<>>, Leaf>>, <<<<"Y">>, Leaf>> >>),
     Map(<< <<<<"X">>, Leaf>>, <<<<"x", "-", "keep">>, Leaf>> >>),
     Map(<< <<<<"X">>, Leaf>>, <<<<"x", "-", "keep">>, Leaf>>, <<<<"Y">>, Leaf>> >>)}
    \cup {Map(<< <<<<"X">>, x>>, <<<<"Y">>, Leaf>> >>) :
              x \in {Leaf, MapsToY, RefTo(rYmissing)}}

SchemasPart == {<<>>} \cup {<< <<<<"schemas">>, bucket>> >> : bucket \in SchemaBuckets}

SecurityPart ==
    {<<>>,
     << <<<<"securitySchemes">>, Map(<< <<<<"apiKey">>, Leaf>> >>)>> >>,
     << <<<<"securitySchemes">>, Map(<< <<<<>>, Leaf>> >>)>> >>,
     << <<<<"securitySchemes">>,
          Map(<< <<<<"apiKey">>, Leaf>>, <<<<"oauth">>, Leaf>> >>)>> >>}

VendorPart == {<<>>, << <<<<"x", "-", "meta">>, Leaf>> >>}

NovelPart == {<<>>, << <<<<"novel">>, Map(<< <<<<"Z">>, Leaf>> >>)>> >>}

PruneDoc(use, comps) ==
    Map(<< <<<<"paths">>, List(<<use, Map(<<>>)>>)>>, <<COMPONENTS, comps>> >>)

PruneDocs ==
    {PruneDoc(use, Map(s \o sec \o v \o n)) :
        use \in PruneUses, s \in SchemasPart, sec \in SecurityPart,
        v \in VendorPart, n \in NovelPart}
    \cup {PruneDoc(Map(<<>>), Str(<<"none">>))}

\* The state after Dereferencer.__init__ (lines 238-250)
Init ==
    /\ \/ cfg \in Configs /\ root_doc \in RootDocs
       \/ cfg = DefaultConfig /\ root_doc \in PruneDocs
    /\ files = Files
    /\ remote = Remote
    /\ doc_cache = (ROOT_URI :> root_doc)
    /\ res_cache = << >>
    /\ loads = << >>
    /\ stats = [resolved |-> 0, circular |-> 0, unresolved |-> 0]
    /\ warnings = << >>
    /\ stack = << >>
    /\ kont = << >>
    /\ pc = "init"
    /\ node = Null
    /\ base = ROOT_URI
    /\ result = Null
    /\ report = NoReport
    /\ before = Null
    /\ prunes = 0
    /\ last = <<"init", <<>>>>
    /\ left = [circular |-> {}, unresolved |-> {}, max_depth |-> {}]
    /\ first_visit = <<>>
    /\ visits = [entered |-> 0, resolved |-> 0, served |-> 0,
                 circular |-> 0, unresolved |-> 0]

\* Dereferencer.dereference: the call of _resolve_node on the copy of the root
dereference ==
    /\ pc = "init"
    /\ pc' = "eval"
    /\ node' = root_doc
    /\ base' = ROOT_URI
    /\ stack' = << >>
    /\ last' = <<"call", <<>>>>
    /\ UNCHANGED <<cfg, root_doc, files, remote, doc_cache, loads, res_cache, stats,
                   warnings, kont, result, report, before, prunes, left, first_visit, visits>>

max_depth_exceeded_silent ==
    /\ pc = "eval"
    /\ Len(stack) > cfg.max_depth
    /\ pc' = "ret"
    /\ last' = <<"max_depth", <<>>>>
    /\ UNCHANGED <<cfg, root_doc, files, remote, doc_cache, loads, res_cache, stats,
                   warnings, stack, kont, node, base, result, report, before,
                   prunes, first_visit, visits>>
    /\ left' = [left EXCEPT !.max_depth = @ \cup {node}]

\* lines 285-287: the depth guard
max_depth_exceeded ==
    /\ pc = "eval"
    /\ Len(stack) > cfg.max_depth
    /\ warnings' = Append(warnings, <<"max_depth", base>>)
    /\ pc' = "ret"
    /\ last' = <<"max_depth", <<>>>>
    /\ UNCHANGED <<cfg, root_doc, files, remote, doc_cache, loads, res_cache, stats,
                   stack, kont, node, base, result, report, before, prunes, first_visit, visits>>
    /\ left' = [left EXCEPT !.max_depth = @ \cup {node}]

\* lines 308-313: the reference key is on the stack
ref_circular ==
    /\ pc = "eval"
    /\ Len(stack) <= cfg.max_depth
    /\ is_ref_node(node)
    /\ \E r \in {ref_info(node, base)} :
          /\ in_stack(r.ref_key)
          /\ last' = <<"circular", r.ref_key>>
    /\ stats' = [stats EXCEPT !.circular = @ + 1]
    /\ node' = circular_result(node)
    /\ pc' = "ret"
    /\ UNCHANGED <<cfg, root_doc, files, remote, doc_cache, loads, res_cache, warnings,
                   stack, kont, base, result, report, before, prunes, first_visit>>
    /\ left' = [left EXCEPT !.circular = @ \cup {circular_result(node)}]
    /\ visits' = [visits EXCEPT !.entered = @ + 1, !.circular = @ + 1]

\* lines 318-320: served from the resolution cache
ref_cache_hit ==
    /\ pc = "eval"
    /\ Len(stack) <= cfg.max_depth
    /\ is_ref_node(node)
    /\ \E r \in {ref_info(node, base)} :
          /\ ~in_stack(r.ref_key)
          /\ cache_allowed(r.overlay)
          /\ r.ref_key \in DOMAIN res_cache
          /\ node' = res_cache[r.ref_key]
          /\ last' = <<"cache_hit", r.ref_key>>
    /\ pc' = "ret"
    /\ UNCHANGED <<cfg, root_doc, files, remote, doc_cache, loads, res_cache, stats,
                   warnings, stack, kont, base, result, report, before, prunes, left, first_visit>>
    /\ visits' = [visits EXCEPT !.entered = @ + 1, !.resolved = @ + 1,
                                !.served = @ + 1]

\* lines 323-329: the load or the pointer failed
ref_unresolved ==
    /\ pc = "eval"
    /\ Len(stack) <= cfg.max_depth
    /\ is_ref_node(node)
    /\ \E r \in {ref_info(node, base)} :
          /\ ~in_stack(r.ref_key)
          /\ ~(cache_allowed(r.overlay) /\ r.ref_key \in DOMAIN res_cache)
          /\ ~load_target(r.doc_uri, r.frag).ok
          /\ doc_cache' = after_load(r.doc_uri)
          /\ loads' = after_read(r.doc_uri)
          /\ warnings' = Append(warnings, <<"failed", r.ref, base>>)
          /\ last' = <<"unresolved", r.ref_key>>
    /\ stats' = [stats EXCEPT !.unresolved = @ + 1]
    /\ pc' = "ret"
    /\ node' = unresolved_result(node)
    /\ UNCHANGED <<cfg, root_doc, files, remote, res_cache, stack,
                   kont, base, result, report, before, prunes, first_visit>>
    /\ left' = [left EXCEPT !.unresolved = @ \cup {node'}]
    /\ visits' = [visits EXCEPT !.entered = @ + 1, !.unresolved = @ + 1]

\* lines 323-333: the target is loaded, the key pushed and the target entered
\* with the document of the target as the base
ref_expand ==
    /\ pc = "eval"
    /\ Len(stack) <= cfg.max_depth
    /\ is_ref_node(node)
    /\ Len(kont) < MaxPending
    /\ \E r \in {ref_info(node, base)} :
          /\ ~in_stack(r.ref_key)
          /\ ~(cache_allowed(r.overlay) /\ r.ref_key \in DOMAIN res_cache)
          /\ \E target \in {load_target(r.doc_uri, r.frag)} :
                /\ target.ok
                /\ node' = target.val
          /\ doc_cache' = after_load(r.doc_uri)
          /\ loads' = after_read(r.doc_uri)
          /\ kont' = Append(kont, [k |-> "ref", ref |-> r.ref,
                                   ref_key |-> r.ref_key, base |-> base,
                                   overlay |-> r.overlay,
                                   cache_allowed |-> cache_allowed(r.overlay)])
          /\ stack' = Append(stack, r.ref_key)
          /\ base' = r.doc_uri
          /\ last' = <<"expand", r.ref_key>>
    /\ UNCHANGED <<cfg, root_doc, files, remote, res_cache, stats, warnings, pc,
                   result, report, before, prunes, left, first_visit>>
    /\ visits' = [visits EXCEPT !.entered = @ + 1]

\* line 301: a scalar is returned as it is
resolve_scalar ==
    /\ pc = "eval"
    /\ Len(stack) <= cfg.max_depth
    /\ ~IsMap(node) /\ ~IsList(node)
    /\ pc' = "ret"
    /\ last' = <<"scalar", <<>>>>
    /\ UNCHANGED <<cfg, root_doc, files, remote, doc_cache, loads, res_cache, stats,
                   warnings, stack, kont, node, base, result, report, before,
                   prunes, left, first_visit, visits>>

\* lines 292-299: a mapping that is no reference node, or a sequence: the
\* first child is entered; an empty container is returned at once
resolve_container ==
    /\ pc = "eval"
    /\ Len(stack) <= cfg.max_depth
    /\ ~is_ref_node(node)
    /\ IsMap(node) \/ IsList(node)
    /\ Len(kont) < MaxPending
    /\ IF node[2] = <<>>
       THEN /\ pc' = "ret"
            /\ UNCHANGED <<kont, node>>
       ELSE /\ kont' = Append(kont,
                          [k |-> node[1], base |-> base,
                           key |-> IF IsMap(node) THEN node[2][1][1] ELSE <<>>,
                           rest |-> Tail(node[2]), out |-> <<>>])
            /\ node' = IF IsMap(node) THEN node[2][1][2] ELSE node[2][1]
            /\ pc' = "eval"
    /\ last' = <<"container", <<>>>>
    /\ UNCHANGED <<cfg, root_doc, files, remote, doc_cache, loads, res_cache, stats,
                   warnings, stack, base, result, report, before, prunes, left, first_visit, visits>>

entry_or_null(f, value) ==
    IF f.k = "map" THEN <<f.key, IF Truthy(value) THEN value ELSE Null>>
    ELSE IF Truthy(value) THEN value ELSE Null

\* lines 295 and 299: the entry of the rebuilt container for a resolved child
entry_of(f, value) == IF f.k = "map" THEN <<f.key, value>> ELSE value

\* lines 294-296 and 299: a child has returned; the next child is entered
\* under the same base, or the rebuilt container is returned
child_done ==
    /\ pc = "ret"
    /\ kont # <<>>
    /\ Top(kont).k \in {"map", "list"}
    /\ LET f   == Top(kont)
           out == Append(f.out, entry_of(f, node))
       IN  IF f.rest = <<>>
           THEN /\ kont' = Pop(kont)
                /\ node' = <<f.k, out>>
                /\ pc' = "ret"
           ELSE /\ kont' = [kont EXCEPT ![Len(kont)] =
                               [f EXCEPT !.key = IF f.k = "map" THEN f.rest[1][1]
                                                 ELSE <<>>,
                                         !.rest = Tail(f.rest), !.out = out]]
                /\ node' = IF f.k = "map" THEN f.rest[1][2] ELSE f.rest[1]
                /\ pc' = "eval"
    /\ base' = Top(kont).base
    /\ last' = <<"child", <<>>>>
    /\ UNCHANGED <<cfg, root_doc, files, remote, doc_cache, loads, res_cache, stats,
                   warnings, stack, result, report, before, prunes, left, first_visit, visits>>

\* lines 343-351: annotate, store in the cache when allowed, count, return
finish(merged, f) ==
    \E resolved \in {annotate(merged, f.ref)} :
       /\ res_cache' = IF f.cache_allowed
                       THEN (f.ref_key :> cached_value(resolved)) @@ res_cache
                       ELSE res_cache
       /\ stats' = [stats EXCEPT !.resolved = @ + 1]
       /\ node' = resolved
       /\ pc' = "ret"
       /\ base' = f.base
       /\ last' = <<"resolved", f.ref_key>>
       /\ first_visit' = IF f.cache_allowed /\ f.ref_key \notin DOMAIN first_visit
                         THEN (f.ref_key :> resolved) @@ first_visit
                         ELSE first_visit
       /\ visits' = [visits EXCEPT !.resolved = @ + 1]

overlay_base_of_target(f) == normalize_ref(f.ref, f.base)[1]

\* line 339: the sibling keys are resolved under current_base_uri, the base
\* the reference node was met under
overlay_base(f) == f.base

\* lines 333-341: the target has been resolved; the key is popped, then the
\* sibling keys are entered under the base of the reference node, or, without
\* siblings, the call finishes
target_done ==
    /\ pc = "ret"
    /\ kont # <<>>
    /\ Top(kont).k = "ref"
    /\ stack' = Pop(stack)
    /\ LET f == Top(kont)
       IN  IF f.overlay[2] # <<>>
           THEN /\ kont' = [kont EXCEPT ![Len(kont)] =
                               [k |-> "overlay", ref |-> f.ref,
                                ref_key |-> f.ref_key, base |-> f.base,
                                resolved_target |-> node,
                                cache_allowed |-> f.cache_allowed]]
                /\ node' = f.overlay
                /\ base' = overlay_base(f)
                /\ pc' = "eval"
                /\ last' = <<"overlay", f.ref_key>>
                /\ UNCHANGED <<res_cache, stats, first_visit, visits>>
           ELSE /\ kont' = Pop(kont)
                /\ finish(node, f)
    /\ UNCHANGED <<cfg, root_doc, files, remote, doc_cache, loads, warnings, result,
                   report, before, prunes, left>>

\* lines 340-351: the sibling keys have been resolved and are merged onto the
\* resolved target
overlay_done ==
    /\ pc = "ret"
    /\ kont # <<>>
    /\ Top(kont).k = "overlay"
    /\ kont' = Pop(kont)
    /\ \E merged \in {deep_merge(Top(kont).resolved_target, node,
                                  cfg.merge_required_lists)} :
          finish(merged, Top(kont))
    /\ UNCHANGED <<cfg, root_doc, files, remote, doc_cache, loads, warnings, stack,
                   result, report, before, prunes, left>>

\* line 280: the outermost call of _resolve_node has returned
dereference_return ==
    /\ pc = "ret"
    /\ kont = <<>>
    /\ result' = node
    /\ pc' = "resolved"
    /\ last' = <<"return", <<>>>>
    /\ UNCHANGED <<cfg, root_doc, files, remote, doc_cache, loads, res_cache, stats,
                   warnings, stack, kont, node, base, report, before, prunes, left, first_visit, visits>>

----------------------------------------------------------------------------
(* Final pass: prune unused components *)

COMPONENT_SECTIONS ==
    <<<<"schemas">>, <<"responses">>, <<"parameters">>, <<"examples">>,
      <<"requestBodies">>, <<"headers">>, <<"securitySchemes">>, <<"links">>,
      <<"callbacks">>, <<"pathItems">>>>

known_section(section) ==
    \E i \in DOMAIN COMPONENT_SECTIONS : COMPONENT_SECTIONS[i] = section

\* _parse_component_pointer(fragment): [ok |-> FALSE] stands for None
parse_component_pointer(fragment) ==
    IF ~startswith(fragment, <<"#", "/">>)
    THEN [ok |-> FALSE, section |-> <<>>, name |-> <<>>]
    ELSE LET parts == split(SubSeq(fragment, 3, Len(fragment)), "/")
         IN  IF parts[1] # COMPONENTS \/ Len(parts) < 3
             THEN [ok |-> FALSE, section |-> <<>>, name |-> <<>>]
             ELSE [ok |-> TRUE,
                   section |-> decode_json_pointer_token(parts[2]),
                   name    |-> decode_json_pointer_token(parts[3])]

pointed_root_exact(ref_val, base_uri, root_uri) ==
    LET n      == normalize_ref(ref_val, base_uri)
        parsed == IF n[1] = root_uri THEN parse_component_pointer(n[2])
                  ELSE [ok |-> FALSE, section |-> <<>>, name |-> <<>>]
    IN  IF parsed.ok /\ Len(split(n[2], "/")) = 4
        THEN {<<parsed.section, parsed.name>>} ELSE {}

\* lines 392-395 and 413-416: the component root a reference string names in
\* the root document
pointed_root(ref_val, base_uri, root_uri) ==
    LET n      == normalize_ref(ref_val, base_uri)
        parsed == IF n[1] = root_uri THEN parse_component_pointer(n[2])
                  ELSE [ok |-> FALSE, section |-> <<>>, name |-> <<>>]
    IN  IF parsed.ok THEN {<<parsed.section, parsed.name>>} ELSE {}

used_by_ref_never(n, base_uri, root_uri) == {}

\* lines 390-395: a remaining $ref
used_by_ref(n, base_uri, root_uri) ==
    IF HasKey(n, REF) /\ IsStr(Get(n, REF))
    THEN pointed_root(Get(n, REF)[2], base_uri, root_uri)
    ELSE {}

used_by_security_as_schemas(n) ==
    IF HasKey(n, <<"security">>) /\ IsList(Get(n, <<"security">>))
    THEN LET reqs == Get(n, <<"security">>)[2]
         IN  {<<<<"schemas">>, name>> :
                 name \in {k \in UNION {IF IsMap(reqs[i]) THEN Keys(reqs[i]) ELSE {}
                                           : i \in DOMAIN reqs} : k # <<>>}}
    ELSE {}

\* lines 398-403: the scheme names of the security requirements
used_by_security(n) ==
    IF HasKey(n, <<"security">>) /\ IsList(Get(n, <<"security">>))
    THEN LET reqs == Get(n, <<"security">>)[2]
         IN  {<<<<"securitySchemes">>, name>> :
                 name \in {k \in UNION {IF IsMap(reqs[i]) THEN Keys(reqs[i]) ELSE {}
                                           : i \in DOMAIN reqs} : k # <<>>}}
    ELSE {}

used_by_discriminator_pointers_only(n, base_uri, root_uri) ==
    IF HasKey(n, <<"discriminator">>) /\ IsMap(Get(n, <<"discriminator">>))
       /\ HasKey(Get(n, <<"discriminator">>), <<"mapping">>)
       /\ IsMap(Get(Get(n, <<"discriminator">>), <<"mapping">>))
    THEN LET mapping == Get(Get(n, <<"discriminator">>), <<"mapping">>)[2]
         IN  UNION {pointed_root(mapping[i][2][2], base_uri, root_uri) :
                       i \in {j \in DOMAIN mapping :
                                 IsStr(mapping[j][2]) /\ mapping[j][2][2] # <<>>}}
    ELSE {}

\* lines 406-420: the values of discriminator.mapping
used_by_discriminator(n, base_uri, root_uri) ==
    IF HasKey(n, <<"discriminator">>) /\ IsMap(Get(n, <<"discriminator">>))
       /\ HasKey(Get(n, <<"discriminator">>), <<"mapping">>)
       /\ IsMap(Get(Get(n, <<"discriminator">>), <<"mapping">>))
    THEN LET mapping == Get(Get(n, <<"discriminator">>), <<"mapping">>)[2]
             vals    == {mapping[i][2][2] :
                            i \in {j \in DOMAIN mapping :
                                      IsStr(mapping[j][2]) /\ mapping[j][2][2] # <<>>}}
         IN  UNION {IF pointed_root(v, base_uri, root_uri) # {}
                    THEN pointed_root(v, base_uri, root_uri)
                    ELSE IF \A i \in DOMAIN v : v[i] # "/" /\ v[i] # "#"
                         THEN {<<<<"schemas">>, v>>}
                         ELSE {} : v \in vals}
    ELSE {}

\* the walk of _collect_used_component_roots
RECURSIVE walk(_, _, _)
walk(at, base_uri, root_uri) ==
    Only({IF IsMap(n)
          THEN used_by_ref(n, base_uri, root_uri)
               \cup used_by_security(n)
               \cup used_by_discriminator(n, base_uri, root_uri)
               \cup UNION {walk(n[2][i][2], base_uri, root_uri) : i \in DOMAIN n[2]}
          ELSE IF IsList(n)
          THEN UNION {walk(n[2][i], base_uri, root_uri) : i \in DOMAIN n[2]}
          ELSE {}
          : n \in {at}})

\* _collect_used_component_roots(doc, root_uri)
collect_used_component_roots(doc, root_uri) == walk(doc, root_uri, root_uri)

deleted_names_vendor_too(section, bucket, used) ==
    {name \in Keys(bucket) : <<section, name>> \notin used}

\* lines 482-487: the names of a bucket that are deleted
deleted_names(section, bucket, used) ==
    {name \in Keys(bucket) :
        ~startswith(name, VENDOR_PREFIX) /\ <<section, name>> \notin used}

prune_bucket_keeps_all(section, bucket, used) == bucket

\* lines 482-487: the bucket after the loop over its names
prune_bucket(section, bucket, used) ==
    Map(SelectSeq(bucket[2],
                  LAMBDA p : p[1] \notin deleted_names(section, bucket, used)))

\* lines 467-491: the loop over the sections of `components`
RECURSIVE prune_sections(_, _, _)
prune_sections(components, todo, used) ==
    Only({IF sections = <<>> THEN comps
          ELSE Only({
              prune_sections(
                  IF startswith(section, VENDOR_PREFIX) THEN comps
                  ELSE IF ~known_section(section) THEN comps
                  ELSE IF ~IsMap(bucket)
                       THEN IF ~Truthy(bucket) THEN DelKey(comps, section)
                            ELSE comps
                  ELSE IF prune_bucket(section, bucket, used)[2] = <<>>
                       THEN DelKey(comps, section)
                       ELSE SetKey(comps, section,
                                   prune_bucket(section, bucket, used)),
                  Tail(sections), used)
              : <<section, bucket>> \in {<<sections[1], Get(comps, sections[1])>>}})
          : <<comps, sections>> \in {<<components, todo>>}})

\* lines 494-501: `components` itself after the loop
drop_empty_components(doc, comps) ==
    IF \A k \in Keys(comps) : startswith(k, VENDOR_PREFIX)
    THEN SetKey(doc, COMPONENTS, comps)
    ELSE IF comps[2] = <<>>
         THEN DelKey(doc, COMPONENTS)
         ELSE SetKey(doc, COMPONENTS, comps)

\* lines 464, 487 and 504: the counts removed per section, zero counts trimmed
removed_per_section(comps, used) ==
    LET count(section) ==
            IF HasKey(comps, section) /\ IsMap(Get(comps, section))
            THEN Cardinality(deleted_names(section, Get(comps, section), used))
            ELSE 0
        touched == {COMPONENT_SECTIONS[i] : i \in DOMAIN COMPONENT_SECTIONS}
    IN  [section \in {x \in touched : count(x) > 0} |-> count(section)]

\* prune_unused_components_in_place(doc, root_uri): the document it leaves
\* and the report it returns
prune_unused_components_in_place(doc, root_uri) ==
    IF ~(HasKey(doc, COMPONENTS) /\ IsMap(Get(doc, COMPONENTS)))
    THEN [doc |-> doc, report |-> NoReport]
    ELSE Only({[doc    |-> drop_empty_components(doc,
                               prune_sections(comps,
                                   [i \in DOMAIN comps[2] |-> comps[2][i][1]], used)),
                report |-> removed_per_section(comps, used)]
               : <<comps, used>> \in
                   {<<Get(doc, COMPONENTS), collect_used_component_roots(doc, root_uri)>>}})

\* Bound: how many times the pruning pass is run on a document
MaxPrunes == 2

\* lines 546-547, and the same call made again on the document it left
prune ==
    /\ pc \in {"resolved", "pruned"}
    /\ prunes < MaxPrunes
    /\ IsMap(result)
    /\ before' = result
    /\ \E pruned \in {prune_unused_components_in_place(result, ROOT_URI)} :
          /\ result' = pruned.doc
          /\ report' = pruned.report
    /\ prunes' = prunes + 1
    /\ pc' = "pruned"
    /\ last' = <<"prune", <<>>>>
    /\ UNCHANGED <<cfg, root_doc, files, remote, doc_cache, loads, res_cache, stats,
                   warnings, stack, kont, node, base, left, first_visit, visits>>

Resolve ==
    \/ dereference
    \/ max_depth_exceeded
    \/ ref_circular
    \/ ref_cache_hit
    \/ ref_unresolved
    \/ ref_expand
    \/ resolve_scalar
    \/ resolve_container
    \/ child_done
    \/ target_done
    \/ overlay_done
    \/ dereference_return

Next == Resolve \/ prune

Spec == Init /\ [][Next]_vars

\* The runs checked for termination: every first use site and every pair of
\* schemas, the second use site being a plain reference to A, under the
\* default configuration, without the placeholder and with the small depth
FairInit ==
    /\ Init
    /\ cfg \in {DefaultConfig,
                [DefaultConfig EXCEPT !.circular_placeholder = FALSE],
                [DefaultConfig EXCEPT !.max_depth = SmallDepth]}
    /\ root_doc \in {RootDoc(u1, RefTo(rA), a, b) :
                        u1 \in Uses1, a \in BodiesA, b \in BodiesB}

\* The interpreter runs the one thread of the program until it ends
FairSpec == FairInit /\ [][Next]_vars /\ WF_vars(Next)

----------------------------------------------------------------------------
(* Properties *)

\* C1: dereference terminates for every root document, file set and
\* configuration of the model, reference cycles included: the outermost call
\* of _resolve_node returns.
C1_Terminates == <>(pc = "resolved")

\* A run that met a cycle through /d/ext.yaml and has returned
C1_Witness ==
    /\ pc = "resolved"
    /\ stats.circular > 0
    /\ Cardinality(DOMAIN doc_cache) > 1
    /\ \E i \in DOMAIN root_doc[2] : root_doc[2][i][2] # result[2][i][2]

\* A call of _resolve_ref_node whose reference key is on the active stack
Revisit ==
    /\ pc = "eval"
    /\ Len(stack) <= cfg.max_depth
    /\ is_ref_node(node)
    /\ \E i \in DOMAIN stack : stack[i] = ref_key_of(node)

\* The placeholder: the reference string and the circular-marker flag
Placeholder(ref) == Map(<< <<REF, Str(ref)>>, <<X_CIRCULAR_REF, Bool(TRUE)>> >>)

\* The step of a revisit returns `value` without recursing: no call is
\* pending that was not before, and the circular counter alone has moved
RevisitReturns(value) ==
    /\ pc' = "ret"
    /\ node' = value
    /\ kont' = kont
    /\ stack' = stack
    /\ res_cache' = res_cache
    /\ stats' = [stats EXCEPT !.circular = @ + 1]

\* C2 as stated: every revisit returns exactly the placeholder, counts one
\* circular reference, does not recurse and leaves stack, cache and the other
\* counters alone; the circular counter moves at revisits only.
C2_Original ==
    [][/\ Revisit => RevisitReturns(Placeholder(ref_of(node)))
       /\ stats'.circular # stats.circular => Revisit]_vars

\* C2 amended: as C2_Original when circular_placeholder is true; when it is
\* false the revisit returns the reference node as it is, sibling keys
\* included.
C2_Amended ==
    [][/\ Revisit =>
            RevisitReturns(IF cfg.circular_placeholder
                           THEN Placeholder(ref_of(node)) ELSE node)
       /\ stats'.circular # stats.circular => Revisit]_vars

\* A revisit has just returned the placeholder, its key still on the stack
C2_Witness ==
    /\ last[1] = "circular"
    /\ pc = "ret"
    /\ cfg.circular_placeholder
    /\ node = Placeholder(ref_of(node))
    /\ \E i \in DOMAIN stack : stack[i] = last[2]
    /\ stats.circular = 1

\* No mapping inside n is a reference node
RECURSIVE NoRefs(_)
NoRefs(n) ==
    IF IsMap(n)
    THEN ~is_ref_node(n) /\ \A i \in DOMAIN n[2] : NoRefs(n[2][i][2])
    ELSE IF IsList(n) THEN \A i \in DOMAIN n[2] : NoRefs(n[2][i])
    ELSE TRUE

\* C3: for a root document without reference nodes, dereference returns a
\* tree equal to the input, the three counters are zero, there is no warning
\* and the resolution cache is empty.
C3_IdentityWithoutRefs ==
    (pc = "resolved" /\ NoRefs(root_doc)) =>
        /\ result = root_doc
        /\ stats = [resolved |-> 0, circular |-> 0, unresolved |-> 0]
        /\ warnings = <<>>
        /\ DOMAIN res_cache = {}

\* dereference has returned for a document without reference nodes that
\* holds mappings, a sequence and scalars
C3_Witness ==
    /\ pc = "resolved"
    /\ NoRefs(root_doc)
    /\ result = root_doc
    /\ IsList(Get(root_doc, <<"paths">>))
    /\ HasKey(Get(root_doc, <<"paths">>)[2][2], <<"security">>)

\* The reference nodes inside n, n included
RECURSIVE RefNodesIn(_)
RefNodesIn(n) ==
    IF IsMap(n)
    THEN (IF is_ref_node(n) THEN {n} ELSE {})
         \cup UNION {RefNodesIn(n[2][i][2]) : i \in DOMAIN n[2]}
    ELSE IF IsList(n) THEN UNION {RefNodesIn(n[2][i]) : i \in DOMAIN n[2]}
    ELSE {}

\* The reference strings of the reference nodes inside n
RefStringsIn(n) == {ref_of(m) : m \in RefNodesIn(n)}

\* A node that carries the circular-marker flag
Marked(n) == HasKey(n, X_CIRCULAR_REF) /\ Get(n, X_CIRCULAR_REF) = Bool(TRUE)

\* C4 as stated: every reference node of the returned tree is a placeholder
\* emitted at a revisit or a reference node whose load or pointer resolution
\* failed, as it was.
C4_Original ==
    pc = "resolved" =>
        RefNodesIn(result) \subseteq
            {m \in left.circular : Marked(m)} \cup left.unresolved

\* C4 amended: every reference node of the returned tree holds the reference
\* string of a node that was returned without expansion: a revisit (the
\* placeholder, or the node as it is when circular_placeholder is false), a
\* reference whose load or pointer resolution failed, a reference node under
\* the sibling keys of one of these, or a reference node inside a subtree the
\* depth guard returned as it was.  Sibling keys and the provenance key may
\* have been merged onto such a node.
C4_Amended ==
    pc = "resolved" =>
        RefStringsIn(result) \subseteq
            UNION {RefStringsIn(m) :
                      m \in left.circular \cup left.unresolved \cup left.max_depth}

\* dereference has returned a tree in which a reference under the sibling keys
\* of an unresolved reference remains, next to content that was resolved
C4_Witness ==
    /\ pc = "resolved"
    /\ stats.resolved > 0
    /\ \E m \in left.unresolved :
          /\ m \in RefNodesIn(result)
          /\ RefNodesIn(m) # {m}
    /\ RefNodesIn(root_doc) \ RefNodesIn(result) # {}

\* _resolve_node(n, b, stk) computed in one piece with _res_cache never
\* consulted nor filled: the value a resolution without any cache returns
RECURSIVE fresh_resolve(_, _, _)
fresh_resolve(n, b, stk) ==
    IF Len(stk) > cfg.max_depth THEN n
    ELSE IF is_ref_node(n)
    THEN Only({
           IF \E i \in DOMAIN stk : stk[i] = r.ref_key THEN circular_result(n)
           ELSE Only({
                  IF ~target.ok THEN n
                  ELSE Only({
                         annotate(IF r.overlay[2] # <<>>
                                  THEN deep_merge(resolved_target,
                                                  fresh_resolve(r.overlay, b, stk),
                                                  cfg.merge_required_lists)
                                  ELSE resolved_target,
                                  r.ref)
                         : resolved_target \in
                             {fresh_resolve(target.val, r.doc_uri,
                                            Append(stk, r.ref_key))}})
                  : target \in {load_target(r.doc_uri, r.frag)}})
           : r \in {ref_info(n, b)}})
    ELSE IF IsMap(n)
    THEN Map([i \in DOMAIN n[2] |-> <<n[2][i][1], fresh_resolve(n[2][i][2], b, stk)>>])
    ELSE IF IsList(n)
    THEN List([i \in DOMAIN n[2] |-> fresh_resolve(n[2][i], b, stk)])
    ELSE n

\* C5: the value served from the resolution cache is the value the first
\* cacheable visit of that key returned, and is the value a resolution of the
\* visited node without any cache returns at that visit.
C5_CacheTransparent ==
    [][ref_cache_hit =>
          /\ node' = first_visit[ref_key_of(node)]
          /\ node' = fresh_resolve(node, base, stack)]_vars

\* the first half of C5 alone
C5_ServesFirstValue ==
    [][ref_cache_hit => node' = first_visit[ref_key_of(node)]]_vars

\* the second half of C5, for a visit through the reference string of the
\* first visit
C5_SameStringTransparent ==
    [][(ref_cache_hit /\ (~cfg.add_x_resolved_from
                          \/ Get(node', X_RESOLVED_FROM) = Get(node, REF)))
          => node' = fresh_resolve(node, base, stack)]_vars

\* A visit of a reference node, not a revisit and not served from the cache,
\* whose target document does not load or whose fragment does not resolve
FailingVisit ==
    /\ pc = "eval"
    /\ Len(stack) <= cfg.max_depth
    /\ is_ref_node(node)
    /\ ~in_stack(ref_key_of(node))
    /\ ~(cache_allowed(DelKey(node, REF)) /\ ref_key_of(node) \in DOMAIN res_cache)
    /\ ~load_target(ref_info(node, base).doc_uri, ref_info(node, base).frag).ok

\* C6: the step taken at a failing visit returns the reference node as it is,
\* sibling keys included, adds one to the unresolved counter and one warning,
\* leaves the stack, the resolution cache and the resolved and circular
\* counters as they were, and returns to the pending calls, which are all
\* still there, so that the rest of the document is resolved.
C6_FailureIsLocal ==
    [][FailingVisit =>
          /\ node' = node
          /\ stats'.unresolved = stats.unresolved + 1
          /\ Len(warnings') = Len(warnings) + 1
          /\ SubSeq(warnings', 1, Len(warnings)) = warnings
          /\ stack' = stack
          /\ res_cache' = res_cache
          /\ stats'.resolved = stats.resolved
          /\ stats'.circular = stats.circular
          /\ kont' = kont
          /\ base' = base
          /\ pc' = "ret"]_vars

\* dereference has returned; the first use failed and stays as it was, its
\* sibling key unresolved, and the use after it has been resolved
C6_Witness ==
    /\ pc = "resolved"
    /\ stats.unresolved = 1
    /\ Len(warnings) = 1
    /\ Get(result, <<"paths">>)[2][1] \in left.unresolved
    /\ Keys(Get(result, <<"paths">>)[2][1]) # {REF}
    /\ Get(result, <<"paths">>)[2][1] = Get(root_doc, <<"paths">>)[2][1]
    /\ ~is_ref_node(Get(result, <<"paths">>)[2][2])
    /\ stats.resolved > 0

\* The items of a list are pairwise different
NoDuplicates(items) ==
    \A i, j \in DOMAIN items : items[i] = items[j] => i = j

\* The base list followed by the overlay items not already present, in order
RECURSIVE UnionInOrder(_, _)
UnionInOrder(base_list, overlay_list) ==
    IF overlay_list = <<>> THEN base_list
    ELSE UnionInOrder(IF \E i \in DOMAIN base_list : base_list[i] = Head(overlay_list)
                      THEN base_list
                      ELSE Append(base_list, Head(overlay_list)),
                      Tail(overlay_list))

\* merged is, on the keys base and overlay share, what C7 says of a merge
RECURSIVE MergedAsClaimed(_, _, _)
MergedAsClaimed(merged, base_map, overlay_map) ==
    \A k \in Keys(base_map) \cap Keys(overlay_map) :
        /\ HasKey(merged, k)
        /\ \E m \in {Get(merged, k)}, b \in {Get(base_map, k)}, o \in {Get(overlay_map, k)} :
              IF k = REQUIRED /\ IsList(b) /\ IsList(o)
              THEN /\ m = List(UnionInOrder(b[2], o[2]))
                   /\ NoDuplicates(m[2])
              ELSE IF IsMap(b) /\ IsMap(o)
              THEN IsMap(m) /\ MergedAsClaimed(m, b, o)
              ELSE m = o

\* The sibling keys of a reference node have been resolved and are about to
\* be merged onto its resolved target
MergeStep ==
    /\ pc = "ret"
    /\ kont # <<>>
    /\ Top(kont).k = "overlay"
    /\ IsMap(Top(kont).resolved_target)

\* C7: merge-required-union being on, the value returned after the merge of a
\* resolved target and the resolved sibling keys holds, for every key of both,
\* the overlay's value, mappings merged by the same rule, except 'required'
\* with two lists, which holds the base list followed by the overlay items not
\* already present, in order, without duplicates.
C7_OverlayWinsRequiredUnion ==
    [][(MergeStep /\ cfg.merge_required_lists) =>
          MergedAsClaimed(node', Top(kont).resolved_target, node)]_vars

\* The document the last pruning pass was given has a `components` mapping
PrunedComponents ==
    /\ pc = "pruned"
    /\ HasKey(before, COMPONENTS)
    /\ IsMap(Get(before, COMPONENTS))

\* `components` before and after the last pruning pass; an absent mapping
\* counts as an empty one
CompsBefore == Get(before, COMPONENTS)
CompsAfter ==
    IF HasKey(result, COMPONENTS) THEN Get(result, COMPONENTS) ELSE Map(<<>>)

\* The UsedSet collected from the document the last pass was given
UsedBefore == collect_used_component_roots(before, ROOT_URI)

\* The known buckets the last pass was given
BucketsBefore ==
    {section \in Keys(CompsBefore) :
        known_section(section) /\ IsMap(Get(CompsBefore, section))}

\* The items of a bucket after the last pass, none if the bucket is gone
ItemsAfter(section) ==
    IF HasKey(CompsAfter, section) /\ IsMap(Get(CompsAfter, section))
    THEN Get(CompsAfter, section) ELSE Map(<<>>)

\* The count the last report gives a bucket, zero if it does not name it
Reported(section) ==
    IF section \in DOMAIN report THEN report[section] ELSE 0

\* C8: a second pruning pass, run on the document the first pass left,
\* leaves the document as it is and returns an empty report.
C8_PruneIdempotent ==
    (pc = "pruned" /\ prunes >= 2) => (result = before /\ report = NoReport)

\* C9: after a pruning pass, in every known bucket an item without the
\* vendor prefix is present exactly when it was present before and is in the
\* UsedSet of the document before the pass, and is then unchanged; items with
\* the vendor prefix, vendor sections and sections outside the known set are
\* unchanged; no known bucket is left empty; the report gives every bucket
\* the number of items deleted from it, and names no other section.
C9_PrunesExactlyUnused ==
    PrunedComponents =>
        /\ \A section \in BucketsBefore :
              /\ Keys(ItemsAfter(section)) \subseteq Keys(Get(CompsBefore, section))
              /\ \A name \in Keys(Get(CompsBefore, section)) :
                    /\ HasKey(ItemsAfter(section), name)
                          <=> (startswith(name, VENDOR_PREFIX)
                               \/ <<section, name>> \in UsedBefore)
                    /\ HasKey(ItemsAfter(section), name) =>
                          Get(ItemsAfter(section), name)
                              = Get(Get(CompsBefore, section), name)
              /\ HasKey(CompsAfter, section) => Get(CompsAfter, section)[2] # <<>>
              /\ Reported(section)
                    = Cardinality(Keys(Get(CompsBefore, section))
                                  \ Keys(ItemsAfter(section)))
        /\ \A section \in Keys(CompsBefore) :
              (startswith(section, VENDOR_PREFIX) \/ ~known_section(section)) =>
                  /\ HasKey(CompsAfter, section)
                  /\ Get(CompsAfter, section) = Get(CompsBefore, section)
        /\ DOMAIN report \subseteq BucketsBefore
        /\ Keys(CompsAfter) \subseteq Keys(CompsBefore)

\* A pass has deleted an unused item and kept a used one and a vendor item,
\* dropped a bucket it emptied, and kept a vendor section and a section
\* outside the known set
C9_Witness ==
    /\ PrunedComponents
    /\ prunes = 1
    /\ \E section \in BucketsBefore :
          /\ Reported(section) = 1
          /\ \E name \in Keys(ItemsAfter(section)) : ~startswith(name, VENDOR_PREFIX)
          /\ \E name \in Keys(ItemsAfter(section)) : startswith(name, VENDOR_PREFIX)
    /\ \E section \in BucketsBefore :
          /\ Reported(section) > 0
          /\ ~HasKey(CompsAfter, section)
    /\ HasKey(CompsAfter, <<"x", "-", "meta">>)
    /\ HasKey(CompsAfter, <<"novel">>)

\* A section of `components` that the pass does not remove
Survives(section) ==
    \E bucket \in {Get(CompsBefore, section)} :
        \/ startswith(section, VENDOR_PREFIX)
        \/ ~known_section(section)
        \/ ~IsMap(bucket) /\ Truthy(bucket)
        \/ /\ IsMap(bucket)
           /\ \E name \in Keys(bucket) :
                 \/ startswith(name, VENDOR_PREFIX)
                 \/ <<section, name>> \in UsedBefore

\* C10: after a pruning pass of a document whose `components` held
\* something, `components` is gone if nothing in it is left, and is there,
\* with what is left, if a key remains, vendor keys included.
C10_EmptyComponentsRemoved ==
    (PrunedComponents /\ CompsBefore[2] # <<>>) =>
        /\ HasKey(result, COMPONENTS) => Get(result, COMPONENTS)[2] # <<>>
        /\ (\E section \in Keys(CompsBefore) : Survives(section))
              => HasKey(result, COMPONENTS)

\* The 'schemas' bucket of a document, an empty mapping if there is none
SchemasOf(doc) ==
    IF HasKey(doc, COMPONENTS) /\ IsMap(Get(doc, COMPONENTS))
       /\ HasKey(Get(doc, COMPONENTS), <<"schemas">>)
       /\ IsMap(Get(Get(doc, COMPONENTS), <<"schemas">>))
    THEN Get(Get(doc, COMPONENTS), <<"schemas">>)
    ELSE Map(<<>>)

\* The first use site under `paths`
FirstUse(doc) == Get(doc, <<"paths">>)[2][1]

\* The root document defines A and B without references inside them, refers
\* to A once, from the first use site, and to B nowhere; the run has gone
\* through dereference and one pruning pass
InlineAndPruneRun ==
    /\ pc = "pruned"
    /\ prunes = 1
    /\ HasKey(SchemasOf(root_doc), <<"A">>)
    /\ HasKey(SchemasOf(root_doc), <<"B">>)
    /\ NoRefs(Get(root_doc, COMPONENTS))
    /\ FirstUse(root_doc) = RefTo(rA)
    /\ NoRefs(Get(root_doc, <<"paths">>)[2][2])

\* The first use site holds the content of A, under the provenance key when
\* the annotation is on
InlinedA ==
    /\ DelKey(FirstUse(result), X_RESOLVED_FROM) = Get(SchemasOf(root_doc), <<"A">>)
    /\ HasKey(FirstUse(result), X_RESOLVED_FROM) <=> cfg.add_x_resolved_from
    /\ cfg.add_x_resolved_from => Get(FirstUse(result), X_RESOLVED_FROM) = Str(rA)

\* C11 as stated: after dereference and pruning, B is absent, the item A is
\* present and the content of A is inlined at the site that referred to it.
C11_Original ==
    InlineAndPruneRun =>
        /\ ~HasKey(SchemasOf(result), <<"B">>)
        /\ HasKey(SchemasOf(result), <<"A">>)
        /\ InlinedA

\* C11 amended: after dereference and pruning, B is absent, the content of A
\* is inlined at the site that referred to it (under the provenance key when
\* the annotation is on), and the item A is absent as well, no reference to
\* it being left in the resolved document.
C11_Amended ==
    InlineAndPruneRun =>
        /\ ~HasKey(SchemasOf(result), <<"B">>)
        /\ ~HasKey(SchemasOf(result), <<"A">>)
        /\ InlinedA

\* such a run, under the default configuration: both items were reported
\* removed and the site holds the content of A
C11_Witness ==
    /\ InlineAndPruneRun
    /\ cfg = DefaultConfig
    /\ report = (<<"schemas">> :> 2)
    /\ FirstUse(result) = Map(<< <<X_RESOLVED_FROM, Str(rA)>> >> \o Obj[2])

\* A holds a reference to B and B one back to A, the first use site refers
\* to A, placeholders are on and the depth guard is out of reach
MutualRun ==
    /\ pc \in {"resolved", "pruned"}
    /\ HasKey(SchemasOf(root_doc), <<"A">>)
    /\ HasKey(SchemasOf(root_doc), <<"B">>)
    /\ Get(SchemasOf(root_doc), <<"A">>) = Map(<< <<<<"p">>, RefTo(rB)>> >>)
    /\ Get(SchemasOf(root_doc), <<"B">>)
          = Map(<< <<<<"items">>, List(<<RefTo(rA)>>)>> >>)
    /\ FirstUse(root_doc) = RefTo(rA)
    /\ cfg.circular_placeholder
    /\ cfg.max_depth >= 2

RECURSIVE MapsIn(_)
MapsIn(n) ==
    IF IsMap(n)
    THEN {n} \cup UNION {MapsIn(n[2][i][2]) : i \in DOMAIN n[2]}
    ELSE IF IsList(n) THEN UNION {MapsIn(n[2][i]) : i \in DOMAIN n[2]}
    ELSE {}

\* The string values of the discriminator mappings of a document
DiscriminatorValues(doc) ==
    UNION {{m[2][i][2][2] : i \in {j \in DOMAIN m[2] : IsStr(m[2][j][2])}} :
              m \in {Get(Get(d, <<"discriminator">>), <<"mapping">>) :
                        d \in {x \in MapsIn(doc) :
                                  /\ HasKey(x, <<"discriminator">>)
                                  /\ IsMap(Get(x, <<"discriminator">>))
                                  /\ HasKey(Get(x, <<"discriminator">>), <<"mapping">>)
                                  /\ IsMap(Get(Get(x, <<"discriminator">>),
                                               <<"mapping">>))}}}

\* A string with neither '/' nor '#' in it
Bare(v) == \A i \in DOMAIN v : v[i] # "/" /\ v[i] # "#"

\* C13 as stated: an item of the 'schemas' bucket whose name is a value,
\* with neither '/' nor '#', of a discriminator mapping of the document
\* given to a pruning pass is still in the bucket after the pass.
C13_Original ==
    PrunedComponents =>
        \A v \in DiscriminatorValues(before) :
            (Bare(v) /\ HasKey(SchemasOf(before), v))
                => HasKey(SchemasOf(result), v)

\* C13 amended: an item of the 'schemas' bucket whose name is a non-empty
\* string value, with neither '/' nor '#', of a discriminator mapping of the
\* document given to a pruning pass is still in the bucket after the pass.
C13_Amended ==
    PrunedComponents =>
        \A v \in DiscriminatorValues(before) :
            (v # <<>> /\ Bare(v) /\ HasKey(SchemasOf(before), v))
                => HasKey(SchemasOf(result), v)

\* a pass was given a document without any reference node, deleted an item
\* of 'schemas' and kept the one a discriminator mapping names
C13_Witness ==
    /\ PrunedComponents
    /\ RefNodesIn(before) = {}
    /\ Reported(<<"schemas">>) > 0
    /\ \E v \in DiscriminatorValues(before) :
          /\ v # <<>>
          /\ Bare(v)
          /\ HasKey(SchemasOf(before), v)
          /\ HasKey(SchemasOf(result), v)

\* The 'securitySchemes' bucket of a document, an empty mapping if none
SecuritySchemesOf(doc) ==
    IF HasKey(doc, COMPONENTS) /\ IsMap(Get(doc, COMPONENTS))
       /\ HasKey(Get(doc, COMPONENTS), <<"securitySchemes">>)
       /\ IsMap(Get(Get(doc, COMPONENTS), <<"securitySchemes">>))
    THEN Get(Get(doc, COMPONENTS), <<"securitySchemes">>)
    ELSE Map(<<>>)

\* The keys of the security requirements of a document: of the mappings
\* listed under a 'security' key
RequirementKeys(doc) ==
    UNION {UNION {IF IsMap(reqs[2][i]) THEN Keys(reqs[2][i]) ELSE {}
                     : i \in DOMAIN reqs[2]} :
              reqs \in {Get(d, <<"security">>) :
                           d \in {x \in MapsIn(doc) :
                                     /\ HasKey(x, <<"security">>)
                                     /\ IsList(Get(x, <<"security">>))}}}

\* C14 as stated: an item of the 'securitySchemes' bucket whose name is a
\* key of a security requirement of the document given to a pruning pass is
\* still in the bucket after the pass.
C14_Original ==
    PrunedComponents =>
        \A name \in RequirementKeys(before) :
            HasKey(SecuritySchemesOf(before), name)
                => HasKey(SecuritySchemesOf(result), name)

\* C14 amended: an item of the 'securitySchemes' bucket whose name is a
\* non-empty string key of a security requirement of the document given to
\* a pruning pass is still in the bucket after the pass.
C14_Amended ==
    PrunedComponents =>
        \A name \in RequirementKeys(before) :
            (name # <<>> /\ HasKey(SecuritySchemesOf(before), name))
                => HasKey(SecuritySchemesOf(result), name)

\* a pass was given a document without any reference node, deleted a scheme
\* no requirement names and kept the one a requirement names
C14_Witness ==
    /\ PrunedComponents
    /\ RefNodesIn(before) = {}
    /\ Reported(<<"securitySchemes">>) > 0
    /\ \E name \in RequirementKeys(before) :
          /\ name # <<>>
          /\ HasKey(SecuritySchemesOf(before), name)
          /\ HasKey(SecuritySchemesOf(result), name)

\* The location names a network document
IsRemote(uri) == urlparse(uri).scheme \in {"http", "https"}

\* C15: a document other than the root is in the document cache only if
\* external references are allowed, and a network document only if remote
\* fetch is allowed as well; with external references disallowed, a
\* reference into another file is still in place when dereference returns.
C15_ExternalLoadsGated ==
    /\ \A uri \in DOMAIN doc_cache \ {ROOT_URI} :
          /\ cfg.handle_external_refs
          /\ IsRemote(uri) => cfg.allow_http
    /\ (pc = "resolved" /\ ~cfg.handle_external_refs
            /\ FirstUse(root_doc) = RefTo(rExtX))
          => FirstUse(result) = RefTo(rExtX)

\* the half of C15 about network documents alone
C15_RemoteLoadsGated ==
    \A uri \in DOMAIN doc_cache :
        IsRemote(uri) => (cfg.handle_external_refs /\ cfg.allow_http)

\* The step returns from the visit of a reference node at once, without a
\* counter or a warning moving: the value comes from the resolution cache
ServedStep ==
    /\ pc = "eval"
    /\ is_ref_node(node)
    /\ pc' = "ret"
    /\ stats' = stats
    /\ warnings' = warnings

\* C16: a step that changes the resolution cache ends a reference visit
\* that has no sibling keys and was entered with an empty stack, and adds
\* the returned value under the key of that visit and nothing else; a step
\* that returns a cached value is the visit of a reference node without
\* sibling keys, made with an empty stack, of a key the cache holds.
C16_CacheOnlyAtTop ==
    [][/\ res_cache' # res_cache =>
             /\ pc = "ret"
             /\ kont # <<>>
             /\ Top(kont).k = "ref"
             /\ Top(kont).overlay[2] = <<>>
             /\ stack = <<Top(kont).ref_key>>
             /\ stack' = <<>>
             /\ Top(kont).ref_key \notin DOMAIN res_cache
             /\ res_cache' = (Top(kont).ref_key :> node') @@ res_cache
       /\ ServedStep =>
             /\ stack = <<>>
             /\ Keys(node) = {REF}
             /\ ref_key_of(node) \in DOMAIN res_cache
             /\ node' = res_cache[ref_key_of(node)]
             /\ res_cache' = res_cache]_vars

\* a value stored by an earlier visit has just been served from the cache
\* to a visit made with an empty stack
C16_Witness ==
    /\ pc = "ret"
    /\ last[1] = "cache_hit"
    /\ stack = <<>>
    /\ last[2] \in DOMAIN res_cache
    /\ node = res_cache[last[2]]

\* The keys of the pending calls of _resolve_ref_node that are between their
\* push and their pop, outermost first
RECURSIVE PushedKeys(_)
PushedKeys(frames) ==
    IF frames = <<>> THEN <<>>
    ELSE IF Head(frames).k = "ref"
         THEN <<Head(frames).ref_key>> \o PushedKeys(Tail(frames))
         ELSE PushedKeys(Tail(frames))

\* C17: the stack holds no key twice; it holds exactly the keys of the
\* pending calls of _resolve_ref_node that have pushed and not yet popped,
\* so that a call that returns leaves the stack as it found it; the stack is
\* empty before dereference is called and once it has returned.
C17_StackDiscipline ==
    /\ NoDuplicates(stack)
    /\ stack = PushedKeys(kont)
    /\ pc \in {"init", "resolved", "pruned"} => (stack = <<>> /\ kont = <<>>)

\* dereference has returned with an empty stack from a run that pushed and
\* popped keys and met a revisit
C17_Witness ==
    /\ pc = "resolved"
    /\ stack = <<>>
    /\ stats.resolved >= 2
    /\ stats.circular >= 1

\* _resolve_node is entered with a stack longer than max_depth
DepthExceeded == pc = "eval" /\ Len(stack) > cfg.max_depth

C19_CountersCountVisits ==
    pc = "resolved" =>
        /\ visits.entered = visits.resolved + visits.circular + visits.unresolved
        /\ stats = [resolved   |-> visits.resolved,
                    circular   |-> visits.circular,
                    unresolved |-> visits.unresolved]

\* what holds of the counters: the resolved counter leaves out the calls
\* served from the cache
C19_ServedNotCounted ==
    pc = "resolved" =>
        /\ visits.entered = visits.resolved + visits.circular + visits.unresolved
        /\ stats = [resolved   |-> visits.resolved - visits.served,
                    circular   |-> visits.circular,
                    unresolved |-> visits.unresolved]

\* The base location the node under the pending calls `frames` is resolved
\* against: the document of the target inside the target of a reference, the
\* base of the reference node inside its sibling keys, the base of the
\* container inside a container, the root location at the top
BaseUnder(frames) ==
    IF frames = <<>> THEN ROOT_URI
    ELSE IF Top(frames).k = "ref"
         THEN normalize_ref(Top(frames).ref, Top(frames).base)[1]
         ELSE Top(frames).base

\* C20: whenever _resolve_node is entered, the base location is the document
\* of the target inside the target of a reference, the base the reference
\* node was met under inside its sibling keys, and the base of the parent
\* inside a mapping or a sequence; the same holds of the base every pending
\* call was entered with; and while sibling keys are resolved the key of
\* their reference node is not among the keys pushed by the calls around.
C20_BaseFollowsDocuments ==
    /\ pc = "eval" => base = BaseUnder(kont)
    /\ \A i \in DOMAIN kont :
          /\ kont[i].base = BaseUnder(SubSeq(kont, 1, i - 1))
          /\ kont[i].k = "overlay" =>
                \A j \in DOMAIN PushedKeys(SubSeq(kont, 1, i)) :
                    PushedKeys(SubSeq(kont, 1, i))[j] # kont[i].ref_key

\* the sibling keys of a reference into another document are being resolved:
\* a reference inside them is met under the base of the node, which is not
\* the document of the target, with the key of the node off the stack
C20_Witness ==
    /\ pc = "eval"
    /\ is_ref_node(node)
    /\ \E i \in DOMAIN kont :
          /\ kont[i].k = "overlay"
          /\ kont[i].base # normalize_ref(kont[i].ref, kont[i].base)[1]
          /\ base = kont[i].base
          /\ \A j \in DOMAIN stack : stack[j] # kont[i].ref_key

\* The reads of location uri, in the order they were performed
ReadsOf(uri) == SelectSeq(loads, LAMBDA e : e[1] = uri)

\* Every key of cache c is a key of cache d with the same value
KeptIn(c, d) == \A k \in DOMAIN c : k \in DOMAIN d /\ d[k] = c[k]

\* C21: no step removes a key from _doc_cache or from _res_cache or changes
\* the value stored under it; the root location is in _doc_cache and is never
\* read; and a read of any location that succeeded is the last read of that
\* location, so that a location is read successfully at most once.
C21_CachesAppendOnly ==
    /\ [][KeptIn(doc_cache, doc_cache') /\ KeptIn(res_cache, res_cache')]_vars
    /\ [](/\ ROOT_URI \in DOMAIN doc_cache
          /\ doc_cache[ROOT_URI] = root_doc
          /\ ReadsOf(ROOT_URI) = << >>
          /\ \A i \in DOMAIN loads :
                loads[i][2] =>
                    /\ loads[i][1] \in DOMAIN doc_cache
                    /\ \A j \in DOMAIN loads :
                          loads[j][1] = loads[i][1] => j <= i)

\* a location other than the root has been read once, with success, and is
\* needed again by a reference nested in the first one, while the root
\* location is needed too and the resolution cache holds a value
C21_Witness ==
    /\ \E i, j \in DOMAIN kont :
          /\ i < j
          /\ kont[i].k = "ref" /\ kont[j].k = "ref"
          /\ normalize_ref(kont[i].ref, kont[i].base)[1] # ROOT_URI
          /\ normalize_ref(kont[j].ref, kont[j].base)[1]
                = normalize_ref(kont[i].ref, kont[i].base)[1]
          /\ ReadsOf(normalize_ref(kont[i].ref, kont[i].base)[1])
                = << <<normalize_ref(kont[i].ref, kont[i].base)[1], TRUE>> >>
    /\ DOMAIN res_cache # {}

\* The tokens of the JSON Pointer in a fragment, decoded, as json_pointer_get
\* walks them; none when the fragment holds no pointer
TokensOf(frag) ==
    IF Len(frag) >= 2 /\ frag[1] = "#" /\ frag[2] = "/"
    THEN [i \in DOMAIN Tail(split(Tail(frag), "/")) |->
             decode_json_pointer_token(Tail(split(Tail(frag), "/"))[i])]
    ELSE << >>

\* The reference string, normalized against the root location, points at the
\* item `name` of the bucket `section` of the root document, or inside it
PointsAt(ref, section, name) ==
    /\ normalize_ref(ref, ROOT_URI)[1] = ROOT_URI
    /\ Len(TokensOf(normalize_ref(ref, ROOT_URI)[2])) >= 3
    /\ TokensOf(normalize_ref(ref, ROOT_URI)[2])[1] = COMPONENTS
    /\ TokensOf(normalize_ref(ref, ROOT_URI)[2])[2] = section
    /\ TokensOf(normalize_ref(ref, ROOT_URI)[2])[3] = name

\* The items the document had before the last pruning pass: <<bucket, name>>
ItemsBefore ==
    {<<section, name>> \in UNION {{<<s, n>> : n \in Keys(Get(CompsBefore, s))}
                                  : s \in {x \in Keys(CompsBefore) :
                                              IsMap(Get(CompsBefore, x))}} : TRUE}

\* C22: after a pruning pass, every item of a bucket of `components` that the
\* document had before the pass and that a reference node left in the
\* document points at, its reference string normalized against the root
\* location, is still in the document.
C22_NoDanglingReference ==
    PrunedComponents =>
        \A m \in RefNodesIn(result) :
            \A item \in ItemsBefore :
                PointsAt(ref_of(m), item[1], item[2]) =>
                    HasKey(ItemsAfter(item[1]), item[2])

\* a pruning pass has deleted an item of a bucket and has kept another item
\* of that bucket, which a reference node left in the document points into
C22_Witness ==
    /\ PrunedComponents
    /\ \E m \in RefNodesIn(result) :
          \E item \in ItemsBefore :
              /\ PointsAt(ref_of(m), item[1], item[2])
              /\ Len(TokensOf(normalize_ref(ref_of(m), ROOT_URI)[2])) > 3
              /\ HasKey(ItemsAfter(item[1]), item[2])
              /\ \E other \in ItemsBefore :
                    /\ other[1] = item[1]
                    /\ ~HasKey(ItemsAfter(item[1]), other[2])

====
